---- MODULE Spec2Model ----
\* Model of git_mass_clone.py (the repository reconciliation engine) and of the
\* clone_and_configure.py collaborator it calls.  One action per subprocess
\* call or loop step of the Python code; the git working copy is the
\* environment, modelled by what each git subcommand does to it.
EXTENDS Integers, Sequences, FiniteSets, TLC

\* ---------------------------------------------------------------- bounds
MaxFaults == 1     \* spurious (environment) command failures in one run
MaxLocal == 2      \* local branches of a working copy when the run starts
MaxCalls == 4      \* _add_to_report calls of a run of the reporter alone
MaxProjects == 2   \* project entries of a client in the manifest

\* ------------------------------------------------------------- universes
Names == {"dev", "main", "master"}       \* branch names
Detached == "HEAD"                       \* rev-parse output on a detached HEAD
RefNames == Names \cup {Detached}        \* names `git branch -r` may list
Unborn == "(unborn)"                     \* HEAD of a repository with no commit
NoUp == "(none)"                         \* a local branch with no upstream
None == "None"                           \* Python's None
FetchErr == "fatal: fetch failed"        \* stderr of a failed fetch
Repos == {"r1", "r2"}                    \* destinations; one identifier each
REMOVED == "branches-removidas"
FAILED == "branches-com-falha"

\* Python's str ordering (code points) on the strings the model sorts.
Rank(s) ==
    CASE s = "HEAD" -> 1
      [] s = "acme/core/app/g/r1" -> 2
      [] s = "acme/core/app/r1" -> 3
      [] s = "beta/core/app/r2" -> 4
      [] s = "branches-com-falha" -> 5
      [] s = "branches-removidas" -> 6
      [] s = "dev" -> 7
      [] s = "fatal: fetch failed" -> 8
      [] s = "ghost" -> 9
      [] s = "main" -> 10
      [] s = "master" -> 11
      [] s = "nobody" -> 12
      [] s = "r1" -> 13
      [] s = "r2" -> 14
      [] OTHER -> 15

StrLess(a, b) == Rank(a) < Rank(b)

\* sorted(list(S))
Sorted(S) == SortSeq(CHOOSE q \in [1..Cardinality(S) -> S] :
                        \A i, j \in 1..Cardinality(S) : i # j => q[i] # q[j],
                     StrLess)

Range(q) == {q[i] : i \in 1..Len(q)}
Contains(q, v) == \E i \in 1..Len(q) : q[i] = v

\* ------------------------------------------------------ the working copy
\* exists: the .git directory is there; local: local branches; head: the
\* checked-out branch, Detached or Unborn; up: upstream (origin/<name>) of each
\* local branch or NoUp; refs: remote-tracking refs origin/*; remote: the
\* branches of the origin itself (unchanged during a run).
NoRepo(rem) ==
    [exists |-> FALSE, local |-> {}, head |-> Unborn,
     up |-> [b \in {} |-> NoUp], refs |-> {}, remote |-> rem]

\* git checkout <b>: a local branch is checked out; a name that is only a
\* remote-tracking ref may be created as a tracking branch (git's guess mode).
CheckoutCanSucceed(rp, b) == b \in rp.local \/ b \in rp.refs
CheckoutMayFailFreely(rp, b) == b \notin rp.local
CreateTracking(rp, b) ==
    [rp EXCEPT !.local = @ \cup {b}, !.head = b,
               !.up = [x \in rp.local \cup {b} |-> IF x = b THEN b ELSE rp.up[x]]]
DoCheckout(rp, b) ==
    IF b \in rp.local THEN [rp EXCEPT !.head = b] ELSE CreateTracking(rp, b)

\* git checkout --track origin/<b>
TrackCanSucceed(rp, b) == b \notin rp.local /\ b \in rp.refs

\* git branch -d / -D <b>: git refuses to delete the checked-out branch.
DeleteCanSucceed(rp, b) == b \in rp.local /\ b # rp.head
DoDelete(rp, b) ==
    [rp EXCEPT !.local = @ \ {b}, !.up = [x \in rp.local \ {b} |-> rp.up[x]]]

\* git branch -r: one line per remote-tracking ref, plus the symbolic
\* origin/HEAD -> origin/<default> line when there is any ref.
BranchRLines(rp) ==
    {[remote |-> "origin", name |-> b, arrow |-> FALSE] : b \in rp.refs}
    \cup (IF rp.refs \cap Names # {}
            THEN {[remote |-> "origin", name |-> Detached, arrow |-> TRUE]}
            ELSE {})

\* git branch -vv: one line per local branch in name order, "*" on the current
\* one, "[origin/<up>: gone]" when the upstream ref no longer exists.
BranchVVLines(rp) ==
    LET q == Sorted(rp.local)
    IN  [i \in 1..Len(q) |->
            [cur |-> (q[i] = rp.head), name |-> q[i], up |-> rp.up[q[i]],
             gone |-> (rp.up[q[i]] # NoUp /\ rp.up[q[i]] \notin rp.refs)]]

\* ------------------------------------------------------------ the report
\* A Python dict keeps its keys in insertion order: a dict is modelled as the
\* sequence of its items [key, val] in that order.
Keys(d) == {d[i].key : i \in 1..Len(d)}
Get(d, k) == d[CHOOSE i \in 1..Len(d) : d[i].key = k].val
Put(d, k, v) ==
    IF k \in Keys(d)
      THEN [i \in 1..Len(d) |-> IF d[i].key = k THEN [key |-> k, val |-> v] ELSE d[i]]
      ELSE Append(d, [key |-> k, val |-> v])

\* a mutant of AddToReport: the value is appended without the membership test
AddToReport_Mutant(rep, id, type, b) ==
    LET inner0 == IF id \in Keys(rep) THEN Get(rep, id) ELSE <<>>
        list0 == IF type \in Keys(inner0) THEN Get(inner0, type) ELSE <<>>
    IN  Put(rep, id, Put(inner0, type, Append(list0, b)))

\* a mutant of AddToReport: the entry of the identifier is made anew
AddToReport_Clobber(rep, id, type, b) ==
    LET inner0 == IF id \in Keys(rep) THEN Get(rep, id) ELSE <<>>
        list0 == IF type \in Keys(inner0) THEN Get(inner0, type) ELSE <<>>
        list1 == IF Contains(list0, b) THEN list0 ELSE Append(list0, b)
    IN  Put(rep, id, Put(<<>>, type, list1))

\* _add_to_report(repo_identifier, type, branch_name) on checkout_report
AddToReport(rep, id, type, b) ==
    LET inner0 == IF id \in Keys(rep) THEN Get(rep, id) ELSE <<>>
        list0 == IF type \in Keys(inner0) THEN Get(inner0, type) ELSE <<>>
        list1 == IF Contains(list0, b) THEN list0 ELSE Append(list0, b)
    IN  Put(rep, id, Put(inner0, type, list1))

\* checkout_report[id][type], empty when there is no such entry
Recorded(rep, id, type) ==
    IF id \in Keys(rep) /\ type \in Keys(Get(rep, id))
      THEN Get(Get(rep, id), type) ELSE <<>>

\* _get_remote_branches: the parse of the `git branch -r` lines
ParseRemoteBranches(lines) ==
    {l.name : l \in {x \in lines : x.remote = "origin" /\ ~x.arrow}}

\* gone_branch_pattern: ^\*?\s+(\S+)\s+\S+\s+\[origin/(\S+): gone\]
GoneMatch(line) == line.gone

\* _handle_gone_branches, the scan: every matching line records its remote
\* branch name under branches-removidas, in line order
RECURSIVE ScanGone(_, _, _)
ScanGone(lines, rep, id) ==
    IF lines = <<>> THEN rep
    ELSE ScanGone(Tail(lines),
                  IF GoneMatch(Head(lines))
                    THEN AddToReport(rep, id, REMOVED, Head(lines).up)
                    ELSE rep,
                  id)

\* _handle_gone_branches, branches_to_delete: the local names of the matching
\* lines, collected only when the flag is set
RECURSIVE MatchedLocals(_)
MatchedLocals(lines) ==
    IF lines = <<>> THEN <<>>
    ELSE (IF GoneMatch(Head(lines)) THEN <<Head(lines).name>> ELSE <<>>)
         \o MatchedLocals(Tail(lines))

\* mutants of BranchesToDelete: the flag is not consulted
BranchesToDelete_Always(lines, delete_gone_branches_flag) == MatchedLocals(lines)
BranchesToDelete_Never(lines, delete_gone_branches_flag) == <<>>

BranchesToDelete(lines, delete_gone_branches_flag) ==
    IF delete_gone_branches_flag THEN MatchedLocals(lines) ELSE <<>>

\* a mutant of ReconcileOrder: the set is iterated unsorted (here: backwards)
ReconcileOrder_Mutant(remote_branches) ==
    LET q == Sorted(remote_branches)
    IN  [i \in 1..Len(q) |-> q[Len(q) + 1 - i]]

\* update_repository_branches: the order of the reconciliation loop
ReconcileOrder(remote_branches) == Sorted(remote_branches)

\* a mutant of DefaultBranches: the fallback tries dev instead of master
DefaultBranches_Mutant == <<"main", "dev">>

\* _return_to_original_branch: the fallback names, in the order tried
DefaultBranches == <<"main", "master">>

\* a mutant of TriesOriginal: a detached HEAD counts as an original branch
TriesOriginal_Mutant(original_branch) == original_branch # None

\* _return_to_original_branch: whether the original branch is tried at all
TriesOriginal(original_branch) ==
    original_branch # None /\ original_branch # Detached

\* ---------------------------------------------------------------- strings
\* str.endswith / str.startswith
EndsWith(s, t) ==
    Len(s) >= Len(t) /\ SubSeq(s, Len(s) - Len(t) + 1, Len(s)) = t
StartsWith(s, t) == Len(s) >= Len(t) /\ SubSeq(s, 1, Len(t)) = t

\* the place of the first character c of s, 0 when there is none
Find(s, c) ==
    IF \E i \in 1..Len(s) : SubSeq(s, i, i) = c
      THEN CHOOSE i \in 1..Len(s) :
              /\ SubSeq(s, i, i) = c
              /\ \A j \in 1..(i - 1) : SubSeq(s, j, j) # c
      ELSE 0

\* s.split(sep), for a separator of one character
RECURSIVE Split(_, _)
Split(s, sep) ==
    LET i == Find(s, sep)
    IN  IF i = 0 THEN <<s>>
        ELSE <<SubSeq(s, 1, i - 1)>> \o Split(SubSeq(s, i + 1, Len(s)), sep)

\* s.strip(), for blanks
RECURSIVE Strip(_)
Strip(s) ==
    IF StartsWith(s, " ") THEN Strip(SubSeq(s, 2, Len(s)))
    ELSE IF EndsWith(s, " ") THEN Strip(SubSeq(s, 1, Len(s) - 1))
    ELSE s

\* sep.join(q)
RECURSIVE JoinWith(_, _)
JoinWith(sep, q) ==
    IF q = <<>> THEN ""
    ELSE IF Len(q) = 1 THEN q[1]
    ELSE q[1] \o sep \o JoinWith(sep, Tail(q))

\* Python's truth value of a string or None
Truthy(v) == v # None /\ v # ""

\* os.path.join (posix): an absolute component discards what precedes it
RECURSIVE PathJoinFrom(_, _)
PathJoinFrom(path, rest) ==
    IF rest = <<>> THEN path
    ELSE LET b == Head(rest)
         IN  PathJoinFrom(IF StartsWith(b, "/") THEN b
                          ELSE IF path = "" \/ EndsWith(path, "/") THEN path \o b
                          ELSE path \o "/" \o b,
                          Tail(rest))
PathJoin(parts) == PathJoinFrom(Head(parts), Tail(parts))

\* os.path.normpath (posix), the loop over the components
RECURSIVE NormComps(_, _, _)
NormComps(comps, new_comps, initial_slashes) ==
    IF comps = <<>> THEN new_comps
    ELSE LET comp == Head(comps)
         IN  IF comp = "" \/ comp = "." THEN
                 NormComps(Tail(comps), new_comps, initial_slashes)
             ELSE IF \/ comp # ".."
                     \/ (initial_slashes = 0 /\ new_comps = <<>>)
                     \/ (new_comps # <<>> /\ new_comps[Len(new_comps)] = "..")
               THEN NormComps(Tail(comps), Append(new_comps, comp), initial_slashes)
             ELSE IF new_comps # <<>>
               THEN NormComps(Tail(comps), SubSeq(new_comps, 1, Len(new_comps) - 1),
                              initial_slashes)
             ELSE NormComps(Tail(comps), new_comps, initial_slashes)

NormPath(path) ==
    IF path = "" THEN "."
    ELSE LET initial_slashes ==
                 IF ~StartsWith(path, "/") THEN 0
                 ELSE IF StartsWith(path, "//") /\ ~StartsWith(path, "///") THEN 2
                 ELSE 1
             joined == JoinWith("/", NormComps(Split(path, "/"), <<>>, initial_slashes))
             out == (IF initial_slashes = 2 THEN "//"
                     ELSE IF initial_slashes = 1 THEN "/" ELSE "") \o joined
         IN  IF out = "" THEN "." ELSE out

\* os.path.abspath: a relative path is taken from the working directory
Cwd == "/cwd"
AbsPath(path) ==
    NormPath(IF StartsWith(path, "/") THEN path ELSE PathJoin(<<Cwd, path>>))

\* -------------------------------------------------------- manifest walker
\* dict.get(k, default) on a dict modelled by its items
GetOr(d, k, default) == IF k \in Keys(d) THEN Get(d, k) ELSE default

\* a mutant of ProcessarRepoName: the suffix is kept
ProcessarRepoName_Mutant(repo) == repo

\* processar_repo_name: a trailing ".git" is dropped
ProcessarRepoName(repo) ==
    IF EndsWith(repo, ".git") THEN SubSeq(repo, 1, Len(repo) - 4) ELSE repo

\* a mutant of BuildRepoIdentifier: the group is left out
BuildRepoIdentifier_Mutant(client_name, classe, nome_proj, grupo, repo_name) ==
    client_name \o "/" \o classe \o "/" \o nome_proj \o "/" \o repo_name

\* build_repo_identifier
BuildRepoIdentifier(client_name, classe, nome_proj, grupo, repo_name) ==
    client_name \o "/" \o classe \o "/" \o nome_proj \o "/"
        \o (IF Truthy(grupo) THEN grupo \o "/" ELSE "") \o repo_name

\* process_repo_entry: the arguments of the process_repository call it makes,
\* kept together with the manifest values they were built from
ProcessRepoEntry(base_url, dir_base, classe, nome_proj, grupo, repo_name, client_name) ==
    LET needs_slash == ~(EndsWith(base_url, "/") \/ EndsWith(base_url, ":"))
        repo_url == base_url \o (IF needs_slash THEN "/" ELSE "") \o repo_name
        repo_name_updated == ProcessarRepoName(repo_name)
        parts == <<dir_base, classe, nome_proj>>
                 \o (IF Truthy(grupo) THEN <<grupo>> ELSE <<>>)
                 \o <<repo_name_updated>>
    IN  [url |-> repo_url,
         dest |-> AbsPath(PathJoin(parts)),
         id |-> BuildRepoIdentifier(client_name, classe, nome_proj, grupo,
                                    repo_name_updated),
         client |-> client_name, base_url |-> base_url, dir_base |-> dir_base,
         classe |-> classe, projeto |-> nome_proj, grupo |-> grupo,
         repo |-> repo_name]

\* what a part of the walk yields: the process_repository calls in order, and
\* the warnings, each with the number of calls made before it
NoWalk == [entries |-> <<>>, warnings |-> <<>>]
Warn(kind, client, what) ==
    [entries |-> <<>>,
     warnings |-> <<[at |-> 0, kind |-> kind, client |-> client, what |-> what]>>]
WalkCat(a, b) ==
    [entries |-> a.entries \o b.entries,
     warnings |-> a.warnings \o
                  [i \in 1..Len(b.warnings) |->
                      [b.warnings[i] EXCEPT !.at = @ + Len(a.entries)]]]

\* handle_repos_list
HandleReposList(base_url, dir_base, classe, nome_proj, repos_list, client_name) ==
    [entries |-> [i \in 1..Len(repos_list) |->
                    ProcessRepoEntry(base_url, dir_base, classe, nome_proj, None,
                                     repos_list[i], client_name)],
     warnings |-> <<>>]

\* handle_repos_dict: the groups in the order of the mapping
RECURSIVE HandleReposDict(_, _, _, _, _, _)
HandleReposDict(base_url, dir_base, classe, nome_proj, repos_dict, client_name) ==
    IF repos_dict = <<>> THEN NoWalk
    ELSE WalkCat(
           [entries |-> [i \in 1..Len(Head(repos_dict).val) |->
                           ProcessRepoEntry(base_url, dir_base, classe, nome_proj,
                                            Head(repos_dict).key,
                                            Head(repos_dict).val[i], client_name)],
            warnings |-> <<>>],
           HandleReposDict(base_url, dir_base, classe, nome_proj,
                           Tail(repos_dict), client_name))

\* the value of a `repositorios` field: a list, a mapping, a scalar or nothing
NoRepos == [kind |-> "none", items |-> <<>>]

\* a mutant of ProcessProjeto: an entry without class is walked all the same
ProcessProjeto_Mutant(base_url, dir_base, projeto_data, client_name) ==
    LET nome_proj == GetOr(projeto_data, "projeto", None)
        classe == GetOr(projeto_data, "classe", None)
        repos_ == GetOr(projeto_data, "repositorios", NoRepos)
    IN  IF ~Truthy(nome_proj) \/ repos_.kind = "none"
          THEN Warn("projeto-invalido", client_name, projeto_data)
        ELSE IF repos_.kind = "list"
          THEN HandleReposList(base_url, dir_base, classe, nome_proj,
                               repos_.items, client_name)
        ELSE IF repos_.kind = "dict"
          THEN HandleReposDict(base_url, dir_base, classe, nome_proj,
                               repos_.items, client_name)
        ELSE Warn("formato-desconhecido", client_name, projeto_data)

\* process_projeto
ProcessProjeto(base_url, dir_base, projeto_data, client_name) ==
    LET nome_proj == GetOr(projeto_data, "projeto", None)
        classe == GetOr(projeto_data, "classe", None)
        repos_ == GetOr(projeto_data, "repositorios", NoRepos)
    IN  IF ~Truthy(nome_proj) \/ ~Truthy(classe) \/ repos_.kind = "none"
          THEN Warn("projeto-invalido", client_name, projeto_data)
        ELSE IF repos_.kind = "list"
          THEN HandleReposList(base_url, dir_base, classe, nome_proj,
                               repos_.items, client_name)
        ELSE IF repos_.kind = "dict"
          THEN HandleReposDict(base_url, dir_base, classe, nome_proj,
                               repos_.items, client_name)
        ELSE Warn("formato-desconhecido", client_name, projeto_data)

\* process_cliente, the loop over the projects
RECURSIVE ProcessProjetos(_, _, _, _)
ProcessProjetos(url_base, dir_base, projetos, cliente_name) ==
    IF projetos = <<>> THEN NoWalk
    ELSE WalkCat(ProcessProjeto(url_base, dir_base, Head(projetos), cliente_name),
                 ProcessProjetos(url_base, dir_base, Tail(projetos), cliente_name))

\* process_cliente
ProcessCliente(cliente_name, cliente_data) ==
    LET url_base == GetOr(cliente_data, "urlBase", None)
        dir_base == GetOr(cliente_data, "diretorioBase", None)
        projetos == GetOr(cliente_data, "projetos", <<>>)
    IN  IF ~Truthy(url_base) \/ ~Truthy(dir_base)
          THEN Warn("cliente-incompleto", cliente_name, <<>>)
        ELSE IF projetos = <<>>
          THEN Warn("sem-projetos", cliente_name, <<>>)
        ELSE ProcessProjetos(url_base, dir_base, projetos, cliente_name)

\* main, the loop over clientes_para_processar
RECURSIVE ProcessClientes(_)
ProcessClientes(clientes) ==
    IF clientes = <<>> THEN NoWalk
    ELSE WalkCat(ProcessCliente(Head(clientes).key, Head(clientes).val),
                 ProcessClientes(Tail(clientes)))

\* filter_clientes: {c.strip() for c in args.cliente.split(',')}
SelectedNames(cliente) == {Strip(c) : c \in Range(Split(cliente, ","))}

\* a mutant of FilterClientes: the request is not consulted
FilterClientes_Mutant(all_clientes, cliente, order) ==
    [filtered |-> all_clientes, not_found |-> {}]

\* filter_clientes: the requested clients found, in the order in which the set
\* of names is iterated, and the names not found
FilterClientes(all_clientes, cliente, order) ==
    IF ~Truthy(cliente)
      THEN [filtered |-> all_clientes, not_found |-> {}]
      ELSE [filtered |->
              LET IsFound(name) == name \in Keys(all_clientes)
                  found == SelectSeq(order, IsFound)
              IN  [i \in 1..Len(found) |->
                     [key |-> found[i], val |-> Get(all_clientes, found[i])]],
            not_found |-> {name \in Range(order) : name \notin Keys(all_clientes)}]

\* the orders in which a set may be iterated
Orders(S) ==
    {q \in [1..Cardinality(S) -> S] :
        \A i, j \in 1..Cardinality(S) : i # j => q[i] # q[j]}

\* ------------------------------------------------- clone_and_configure.py
\* main of clone_and_configure.py, called with -c <cliente>: the exit status
\* from the outcome of clone_repo and of the configuration steps (load_config,
\* the lookups of gitUserName, the client and its gitEmail, apply_git_config)
CloneAndConfigureExit(cloneOk, configOk) ==
    IF ~cloneOk THEN 1 ELSE IF ~configOk THEN 1 ELSE 0

\* the working copy a successful `git clone` leaves: the default branch d
\* checked out and tracking origin/d, every remote branch as a ref
Cloned(rem, d) ==
    [exists |-> TRUE, local |-> {d}, head |-> d,
     up |-> [b \in {d} |-> d], refs |-> rem, remote |-> rem]

\* a clone of an origin that has no branch yet
ClonedEmpty(rem) ==
    [exists |-> TRUE, local |-> {}, head |-> Unborn,
     up |-> [b \in {} |-> NoUp], refs |-> rem, remote |-> rem]

\* ------------------------------------------------------------------ state
VARIABLES
    jobs,                  \* repository jobs of the run, in manifest order
    delete_gone_branches,  \* args.delete_gone_branches
    gitclone_command,      \* check_gitclone_command(): "gitclone" or None
    git_found,             \* the git executable is on the PATH
    repos,                 \* the working copy under each destination
    checkout_report,       \* the global report
    pc,                    \* position in main / process_repository
    job,                   \* index of the job being processed
    original_branch,       \* update_repository_branches: original_branch
    remote_branches,       \* update_repository_branches: remote_branches
    branches_to_delete,    \* _delete_branches: candidates not yet handled
    todo,                  \* reconciliation loop: branches not yet handled
    defaults,              \* _return_to_original_branch: defaults not yet tried
    start,                 \* history: the working copy and report at job start
    log,                   \* history: commands of the current job, with outcome
    faults,                \* history: spurious command failures so far
    hist,                  \* history: one summary per finished job
    exit_code,             \* exit status of the process, None while running
    rendered,              \* what _print_report printed, None before
    config,                \* load_config(): how the load ended and the data
    args_cliente,          \* args.cliente
    selected,              \* names of clientes_para_processar, in order
    entries,               \* the process_repository calls of the walk
    warnings               \* the warnings of filter and walk

vars == <<jobs, delete_gone_branches, gitclone_command, git_found, repos,
          checkout_report, pc, job, original_branch, remote_branches,
          branches_to_delete, todo, defaults, start, log, faults, hist,
          exit_code, rendered, config, args_cliente, selected, entries,
          warnings>>

manifest == <<config, args_cliente, selected, entries, warnings>>
env == <<jobs, delete_gone_branches, gitclone_command, git_found, manifest>>
frame == <<original_branch, remote_branches, branches_to_delete, todo, defaults>>

EmptyReport == <<>>

Id == jobs[job]            \* repo_identifier (and destination) of the job
Rp == repos[Id]

Ev(op, arg, ok) == <<op, arg, ok>>

\* a command may fail although it could succeed only while the run's budget of
\* spurious failures lasts
Outcome(ok, canSucceed, freeFail) ==
    /\ ok => canSucceed
    /\ (~ok /\ canSucceed /\ ~freeFail) => faults < MaxFaults
    /\ faults' = IF ~ok /\ canSucceed /\ ~freeFail THEN faults + 1 ELSE faults

\* ------------------------------------------------------------------- Init
\* The origins and the working copies a run may find on disk.  A ref named
\* HEAD that is no symbolic ref is listed only beside main.  The refs of a
\* working copy are those of its last fetch: the origin's branches and the
\* upstreams of its local branches, some of them deleted at the origin since.
Remotes == {rm \in SUBSET RefNames : Detached \in rm => "main" \in rm}
Heads(L) == IF L = {} THEN {Unborn} ELSE L \cup {Detached}
Locals == {L \in SUBSET Names : Cardinality(L) <= MaxLocal}
ExistingRepos ==
    UNION { UNION { UNION {
        { [exists |-> TRUE, local |-> L, head |-> h, up |-> u,
           refs |-> rm \cup ({u[b] : b \in L} \ {NoUp}), remote |-> rm]
          : h \in Heads(L) }
        : u \in [L -> Names \cup {NoUp}] } : L \in Locals } : rm \in Remotes }
RepoStates == {NoRepo(rm) : rm \in Remotes} \cup ExistingRepos

\* the report, the locals of the call in progress and the history, at start
InitState ==
    /\ checkout_report = EmptyReport
    /\ job = 1
    /\ original_branch = None
    /\ remote_branches = None
    /\ branches_to_delete = <<>>
    /\ todo = <<>>
    /\ defaults = <<>>
    /\ start = [job |-> 0, rp |-> NoRepo({}), report |-> EmptyReport,
                faults |-> 0]
    /\ log = <<>>
    /\ faults = 0
    /\ hist = <<>>
    /\ exit_code = None
    /\ rendered = None

\* a run whose jobs are given directly: no manifest is read
NoManifest ==
    /\ config = [load |-> "none", data |-> <<>>]
    /\ args_cliente = None
    /\ selected = <<>>
    /\ entries = <<>>
    /\ warnings = <<>>

\* The parts of Init every specification shares.
InitRest ==
    /\ delete_gone_branches \in BOOLEAN
    /\ git_found \in BOOLEAN
    \* gitclone_command is read by _clone_repository only
    /\ gitclone_command \in
          IF \E r \in Repos : ~repos[r].exists /\ r \in Range(jobs)
            THEN {None, "gitclone"} ELSE {None}
    /\ pc = "main"
    /\ InitState
    /\ NoManifest

\* One job on any working copy.
Init ==
    /\ jobs = <<"r1">>
    /\ \E st \in RepoStates :
          repos = [r \in Repos |-> IF r = "r1" THEN st ELSE NoRepo({})]
    /\ InitRest

\* Two jobs: the same working copy twice, or two destinations to clone.
RunNames == {"dev", "main"}
RunRepoStates ==
    {st \in RepoStates :
        /\ st.local \subseteq RunNames
        /\ st.remote \in (SUBSET RunNames) \cup {{Detached, "main"}}
        /\ \A b \in st.local : st.up[b] \in {NoUp, b, "master"}}

InitRun ==
    /\ \/ /\ jobs = <<"r1", "r1">>
          /\ \E st \in RunRepoStates :
                repos = [r \in Repos |-> IF r = "r1" THEN st ELSE NoRepo({})]
       \/ /\ jobs = <<"r1", "r2">>
          /\ \E rm1 \in SUBSET RunNames, rm2 \in SUBSET RunNames :
                repos = [r \in Repos |-> IF r = "r1" THEN NoRepo(rm1)
                                         ELSE NoRepo(rm2)]
    /\ InitRest

\* ---------------------------------------------------------------- actions
\* main, the loop over the jobs: process_repository decides clone or update
ProcessRepository ==
    /\ pc = "main" /\ job <= Len(jobs)
    /\ pc' = IF Rp.exists THEN "pull" ELSE "clone"
    /\ log' = <<>>
    /\ start' = [job |-> job, rp |-> Rp, report |-> checkout_report,
                 faults |-> faults]
    /\ original_branch' = None /\ remote_branches' = None
    /\ branches_to_delete' = <<>> /\ todo' = <<>> /\ defaults' = <<>>
    /\ UNCHANGED <<env, repos, checkout_report, job, faults, hist, exit_code,
                   rendered>>

\* run_git_command / _clone_repository: FileNotFoundError, sys.exit(1)
GitPcs == {"pull", "rev_parse", "remote_prune", "fetch", "branch_r",
           "branch_vv", "del_probe", "del_safe", "del_force", "checkout",
           "track", "return_original", "return_default"}

GitNotFound ==
    /\ ~git_found
    /\ \/ pc \in GitPcs
       \/ pc = "clone" /\ gitclone_command = None
    /\ pc' = "done" /\ exit_code' = 1
    /\ log' = Append(log, Ev("exit", pc, FALSE))
    /\ UNCHANGED <<env, repos, checkout_report, job, frame, faults, hist,
                   start, rendered>>

\* a mutant of AfterPull: a failed pull ends the job
AfterPull_Mutant(pulled) == IF pulled THEN "rev_parse" ELSE "job_done"

\* process_repository: update_repository_branches follows _update_repository
\* whatever it returned
AfterPull(pulled) == "rev_parse"

\* _update_repository: git pull; its result is not used by the caller
Pull ==
    /\ pc = "pull" /\ git_found
    /\ \E ok \in BOOLEAN :
          /\ Outcome(ok, Rp.head \in Rp.local /\ Rp.up[Rp.head] \in Rp.remote,
                     FALSE)
          /\ repos' = IF ok THEN [repos EXCEPT ![Id].refs = @ \cup Rp.remote]
                      ELSE repos
          /\ log' = Append(log, Ev("pull", Id, ok))
          /\ pc' = AfterPull(ok)
    /\ UNCHANGED <<env, checkout_report, job, frame, hist, start, exit_code, rendered>>

\* a mutant of AfterClone: the result of the clone is not consulted
AfterClone_Mutant(clone_successful) == "rev_parse"

\* process_repository: update_repository_branches runs only after a clone
\* that returned True
AfterClone(clone_successful) ==
    IF clone_successful THEN "rev_parse" ELSE "job_done"

\* _clone_repository: makedirs of the parent, then gitclone -c <client> or
\* git clone; True only when the command exits 0
Clone ==
    /\ pc = "clone"
    /\ gitclone_command = None => git_found
    /\ \E mk \in BOOLEAN, cloneOk \in BOOLEAN, configOk \in BOOLEAN :
          LET ran == mk
              made == ran /\ cloneOk /\ (gitclone_command # None => git_found)
              rc == IF gitclone_command # None
                      THEN CloneAndConfigureExit(made, configOk)
                      ELSE IF made THEN 0 ELSE 1
              ok == ran /\ rc = 0
          IN  /\ gitclone_command = None => configOk
              /\ ~mk => cloneOk /\ configOk
              /\ ~cloneOk => configOk
              /\ \E d \in (IF Rp.remote \cap Names = {} THEN {Unborn}
                           ELSE Rp.remote \cap Names) :
                    repos' = IF made
                               THEN [repos EXCEPT ![Id] =
                                       IF d = Unborn THEN ClonedEmpty(Rp.remote)
                                       ELSE Cloned(Rp.remote, d)]
                               ELSE repos
              /\ log' = Append(log, Ev("clone", Id, ok))
              /\ pc' = AfterClone(ok)
    /\ UNCHANGED <<env, checkout_report, job, frame, faults, hist, start, exit_code,
                   rendered>>

\* update_repository_branches: git rev-parse --abbrev-ref HEAD
RevParse ==
    /\ pc = "rev_parse" /\ git_found
    /\ \E ok \in BOOLEAN :
          /\ Outcome(ok, Rp.head # Unborn, FALSE)
          /\ original_branch' = IF ok THEN Rp.head ELSE None
          /\ log' = Append(log, Ev("rev-parse", Rp.head, ok))
    /\ pc' = "remote_prune"
    /\ UNCHANGED <<env, repos, checkout_report, job, remote_branches,
                   branches_to_delete, todo, defaults, hist, start, exit_code, rendered>>

\* _fetch_and_prune: git remote prune origin, errors ignored
RemotePrune ==
    /\ pc = "remote_prune" /\ git_found
    /\ \E ok \in BOOLEAN :
          /\ Outcome(ok, TRUE, FALSE)
          /\ repos' = IF ok THEN [repos EXCEPT ![Id].refs = @ \cap Rp.remote]
                      ELSE repos
          /\ log' = Append(log, Ev("remote-prune", Id, ok))
    /\ pc' = "fetch"
    /\ UNCHANGED <<env, checkout_report, job, frame, hist, start, exit_code, rendered>>

\* mutants of AfterFetch and AfterEnum: the pass goes on after the failure
AfterFetch_Mutant(fetched) == "branch_r"
AfterEnum_Mutant(listed) == "branch_vv"

\* update_repository_branches: `if not _fetch_and_prune(...)`, straight to
\* _return_to_original_branch
AfterFetch(fetched) == IF fetched THEN "branch_r" ELSE "return_original"

\* update_repository_branches: `if remote_branches is None`, likewise
AfterEnum(listed) == IF listed THEN "branch_vv" ELSE "return_original"

\* _fetch_and_prune: git fetch --prune; a failure is recorded and the caller
\* goes straight to _return_to_original_branch
Fetch ==
    /\ pc = "fetch" /\ git_found
    /\ \E ok \in BOOLEAN :
          /\ Outcome(ok, TRUE, FALSE)
          /\ repos' = IF ok THEN [repos EXCEPT ![Id].refs = Rp.remote]
                      ELSE repos
          /\ checkout_report' =
                IF ok THEN checkout_report
                ELSE AddToReport(checkout_report, Id, FAILED, FetchErr)
          /\ log' = Append(log, Ev("fetch", Id, ok))
          /\ pc' = AfterFetch(ok)
    /\ UNCHANGED <<env, job, frame, hist, start, exit_code, rendered>>

\* a mutant of AfterCheckout: the loop stops after its first branch
AfterCheckout_Mutant(rest) == "return_original"

\* what the loops go to next
AfterCheckout(rest) == IF rest = <<>> THEN "return_original" ELSE "checkout"

\* a mutant of AfterDelete: the reconciliation starts after the first candidate
AfterDelete_Mutant(rest, branches) == AfterCheckout(branches)

AfterDelete(rest, branches) ==
    IF rest = <<>> THEN AfterCheckout(branches) ELSE "del_probe"

\* _get_remote_branches: git branch -r; None on failure
BranchR ==
    /\ pc = "branch_r" /\ git_found
    /\ \E ok \in BOOLEAN :
          /\ Outcome(ok, TRUE, FALSE)
          /\ remote_branches' =
                IF ok THEN ParseRemoteBranches(BranchRLines(Rp)) ELSE None
          /\ todo' = IF ok THEN ReconcileOrder(ParseRemoteBranches(BranchRLines(Rp)))
                     ELSE <<>>
          /\ log' = Append(log, Ev("branch-r", Id, ok))
          /\ pc' = AfterEnum(ok)
    /\ UNCHANGED <<env, repos, checkout_report, job, original_branch,
                   branches_to_delete, defaults, hist, start, exit_code, rendered>>

\* _handle_gone_branches: git branch -vv and the scan of its lines
BranchVV ==
    /\ pc = "branch_vv" /\ git_found
    /\ \E ok \in BOOLEAN :
          /\ Outcome(ok, TRUE, FALSE)
          /\ checkout_report' =
                IF ok THEN ScanGone(BranchVVLines(Rp), checkout_report, Id)
                ELSE checkout_report
          /\ branches_to_delete' =
                IF ok THEN BranchesToDelete(BranchVVLines(Rp), delete_gone_branches)
                ELSE <<>>
          /\ log' = Append(log, Ev("branch-vv", Id, ok))
          /\ pc' = AfterDelete(branches_to_delete', todo)
    /\ UNCHANGED <<env, repos, job, original_branch, remote_branches, todo,
                   defaults, hist, start, exit_code, rendered>>

\* a mutant of IsCurrentBranch: the comparison with the current branch is lost
IsCurrentBranch_Mutant(probeOk, current, local_branch) == FALSE

\* _delete_branches: `returncode == 0 and stdout.strip() == local_branch`
IsCurrentBranch(probeOk, current, local_branch) ==
    probeOk /\ current = local_branch

\* _delete_branches: the probe of the current branch before each deletion
DelProbe ==
    /\ pc = "del_probe" /\ git_found
    /\ LET b == Head(branches_to_delete) IN
       \E ok \in BOOLEAN :
          /\ Outcome(ok, Rp.head # Unborn, FALSE)
          /\ log' = Append(log, Ev("probe", b, ok))
          /\ IF IsCurrentBranch(ok, Rp.head, b)
               THEN /\ checkout_report' =
                          AddToReport(checkout_report, Id, FAILED, b)
                    /\ branches_to_delete' = Tail(branches_to_delete)
                    /\ pc' = AfterDelete(branches_to_delete', todo)
               ELSE /\ UNCHANGED <<checkout_report, branches_to_delete>>
                    /\ pc' = "del_safe"
    /\ UNCHANGED <<env, repos, job, original_branch, remote_branches, todo,
                   defaults, hist, start, exit_code, rendered>>

\* _delete_branches: git branch -d
DelSafe ==
    /\ pc = "del_safe" /\ git_found
    /\ LET b == Head(branches_to_delete) IN
       \E ok \in BOOLEAN :
          /\ Outcome(ok, DeleteCanSucceed(Rp, b), TRUE)
          /\ log' = Append(log, Ev("branch-d", b, ok))
          /\ repos' = IF ok THEN [repos EXCEPT ![Id] = DoDelete(Rp, b)] ELSE repos
          /\ branches_to_delete' =
                IF ok THEN Tail(branches_to_delete) ELSE branches_to_delete
          /\ pc' = IF ok THEN AfterDelete(branches_to_delete', todo) ELSE "del_force"
    /\ UNCHANGED <<env, checkout_report, job, original_branch, remote_branches,
                   todo, defaults, hist, start, exit_code, rendered>>

\* a mutant of ForceDeleteReport: the branch is recorded after every forced
\* delete
ForceDeleteReport_Mutant(rep, id, b, ok) == AddToReport(rep, id, FAILED, b)

\* _delete_branches: the report after git branch -D returned
ForceDeleteReport(rep, id, b, ok) ==
    IF ok THEN rep ELSE AddToReport(rep, id, FAILED, b)

\* _delete_branches: git branch -D after a failed -d
DelForce ==
    /\ pc = "del_force" /\ git_found
    /\ LET b == Head(branches_to_delete) IN
       \E ok \in BOOLEAN :
          /\ Outcome(ok, DeleteCanSucceed(Rp, b), FALSE)
          /\ log' = Append(log, Ev("branch-D", b, ok))
          /\ repos' = IF ok THEN [repos EXCEPT ![Id] = DoDelete(Rp, b)] ELSE repos
          /\ checkout_report' = ForceDeleteReport(checkout_report, Id, b, ok)
          /\ branches_to_delete' = Tail(branches_to_delete)
          /\ pc' = AfterDelete(branches_to_delete', todo)
    /\ UNCHANGED <<env, job, original_branch, remote_branches, todo, defaults,
                   hist, start, exit_code, rendered>>

\* update_repository_branches, the loop: `if branch == 'HEAD': continue`
SkipHead ==
    /\ pc = "checkout" /\ Head(todo) = Detached
    /\ todo' = Tail(todo)
    /\ pc' = AfterCheckout(Tail(todo))
    /\ log' = Append(log, Ev("skip", Detached, TRUE))
    /\ UNCHANGED <<env, repos, checkout_report, job, original_branch,
                   remote_branches, branches_to_delete, defaults, faults, hist, start,
                   exit_code, rendered>>

\* _checkout_remote_branch: git checkout <branch>
Checkout ==
    /\ pc = "checkout" /\ git_found /\ Head(todo) # Detached
    /\ LET b == Head(todo) IN
       \E ok \in BOOLEAN :
          /\ Outcome(ok, CheckoutCanSucceed(Rp, b), CheckoutMayFailFreely(Rp, b))
          /\ log' = Append(log, Ev("checkout", b, ok))
          /\ repos' = IF ok THEN [repos EXCEPT ![Id] = DoCheckout(Rp, b)] ELSE repos
          /\ todo' = IF ok THEN Tail(todo) ELSE todo
          /\ pc' = IF ok THEN AfterCheckout(Tail(todo)) ELSE "track"
    /\ UNCHANGED <<env, checkout_report, job, original_branch, remote_branches,
                   branches_to_delete, defaults, hist, start, exit_code, rendered>>

\* _checkout_remote_branch: git checkout --track origin/<branch> after a
\* failed checkout; a second failure is recorded
Track ==
    /\ pc = "track" /\ git_found
    /\ LET b == Head(todo) IN
       \E ok \in BOOLEAN :
          /\ Outcome(ok, TrackCanSucceed(Rp, b), FALSE)
          /\ log' = Append(log, Ev("track", b, ok))
          /\ repos' = IF ok THEN [repos EXCEPT ![Id] = CreateTracking(Rp, b)]
                      ELSE repos
          /\ checkout_report' =
                IF ok THEN checkout_report
                ELSE AddToReport(checkout_report, Id, FAILED, b)
          /\ todo' = Tail(todo)
          /\ pc' = AfterCheckout(Tail(todo))
    /\ UNCHANGED <<env, job, original_branch, remote_branches,
                   branches_to_delete, defaults, hist, start, exit_code, rendered>>

\* _return_to_original_branch: git checkout <original_branch>, tried only for
\* a recorded, named branch
ReturnOriginal ==
    /\ pc = "return_original"
    /\ IF TriesOriginal(original_branch)
         THEN /\ git_found
              /\ \E ok \in BOOLEAN :
                    /\ Outcome(ok, CheckoutCanSucceed(Rp, original_branch),
                               CheckoutMayFailFreely(Rp, original_branch))
                    /\ log' = Append(log, Ev("return", original_branch, ok))
                    /\ repos' = IF ok THEN [repos EXCEPT ![Id] =
                                              DoCheckout(Rp, original_branch)]
                                ELSE repos
                    /\ pc' = IF ok THEN "job_done" ELSE "return_default"
                    /\ defaults' = IF ok THEN defaults ELSE DefaultBranches
         ELSE /\ pc' = "return_default"
              /\ defaults' = DefaultBranches
              /\ UNCHANGED <<repos, log, faults>>
    /\ UNCHANGED <<env, checkout_report, job, original_branch, remote_branches,
                   branches_to_delete, todo, hist, start, exit_code, rendered>>

\* _return_to_original_branch: git checkout main, then master, until one
\* succeeds
ReturnDefault ==
    /\ pc = "return_default" /\ git_found
    /\ LET b == Head(defaults) IN
       \E ok \in BOOLEAN :
          /\ Outcome(ok, CheckoutCanSucceed(Rp, b), CheckoutMayFailFreely(Rp, b))
          /\ log' = Append(log, Ev("default", b, ok))
          /\ repos' = IF ok THEN [repos EXCEPT ![Id] = DoCheckout(Rp, b)] ELSE repos
          /\ defaults' = IF ok THEN <<>> ELSE Tail(defaults)
          /\ pc' = IF ok \/ Tail(defaults) = <<>> THEN "job_done"
                   ELSE "return_default"
    /\ UNCHANGED <<env, checkout_report, job, original_branch, remote_branches,
                   branches_to_delete, todo, hist, start, exit_code, rendered>>

\* process_repository returns; main takes the next job
JobDone ==
    /\ pc = "job_done"
    /\ hist' = Append(hist, [id |-> Id, log |-> log, start |-> start,
                            rp |-> Rp, report |-> checkout_report,
                            faults |-> faults])
    /\ job' = job + 1
    /\ pc' = "main"
    /\ UNCHANGED <<env, repos, checkout_report, frame, start, log, faults,
                   exit_code, rendered>>

\* _print_report: the lists of the two categories are sorted in place, then
\* the report is printed with its repository keys in sorted order
SortLists(rep) ==
    [i \in 1..Len(rep) |->
        [key |-> rep[i].key,
         val |-> [j \in 1..Len(rep[i].val) |->
                    [key |-> rep[i].val[j].key,
                     val |-> IF rep[i].val[j].key \in {REMOVED, FAILED}
                               THEN SortSeq(rep[i].val[j].val, StrLess)
                               ELSE rep[i].val[j].val]]]]

ItemLess(a, b) == StrLess(a.key, b.key)

\* a mutant of SortKeys: the identifiers are printed in the order recorded
SortKeys_Mutant(rep) == rep

SortKeys(rep) == SortSeq(rep, ItemLess)

NothingToReport == "Nenhum problema reportado"

\* a mutant of RenderReport: an empty report is printed like any other
RenderReport_Mutant(rep) == SortKeys(SortLists(rep))

\* _print_report: what is printed
RenderReport(rep) ==
    IF rep # <<>> THEN SortKeys(SortLists(rep)) ELSE NothingToReport

PrintReport ==
    /\ pc = "main" /\ job > Len(jobs)
    /\ checkout_report' = SortLists(checkout_report)
    /\ rendered' = RenderReport(checkout_report)
    /\ pc' = "done"
    /\ exit_code' = 0
    /\ UNCHANGED <<env, repos, job, frame, log, faults, hist, start>>

Next ==
    \/ ProcessRepository
    \/ GitNotFound
    \/ Pull
    \/ Clone
    \/ RevParse
    \/ RemotePrune
    \/ Fetch
    \/ BranchR
    \/ BranchVV
    \/ DelProbe
    \/ DelSafe
    \/ DelForce
    \/ SkipHead
    \/ Checkout
    \/ Track
    \/ ReturnOriginal
    \/ ReturnDefault
    \/ JobDone
    \/ PrintReport

Spec == Init /\ [][Next]_vars

SpecRun == InitRun /\ [][Next]_vars

\* ------------------------------------------------------ the reporter alone
\* The values the components record: two identifiers, the two categories and
\* two branch names.
RecordNames == {"dev", "main"}
Categories == {REMOVED, FAILED}

InitReport ==
    /\ jobs = <<>>
    /\ repos = [r \in Repos |-> NoRepo({})]
    /\ delete_gone_branches = FALSE
    /\ git_found = TRUE
    /\ gitclone_command = None
    /\ pc = "main"
    /\ InitState
    /\ NoManifest

\* one call of _add_to_report
Record ==
    /\ pc = "main" /\ jobs = <<>> /\ Len(log) < MaxCalls
    /\ \E id \in Repos, type \in Categories, b \in RecordNames :
          /\ checkout_report' = AddToReport(checkout_report, id, type, b)
          /\ log' = Append(log, <<id, type, b>>)
    /\ UNCHANGED <<env, repos, pc, job, frame, start, faults, hist, exit_code,
                   rendered>>

NextReport ==
    \/ Record
    \/ PrintReport

SpecReport == InitReport /\ [][NextReport]_vars

\* ------------------------------------------------------------ the manifest
Dict3(k1, v1, k2, v2, k3, v3) ==
    <<[key |-> k1, val |-> v1], [key |-> k2, val |-> v2], [key |-> k3, val |-> v3]>>
ListOf(q) == [kind |-> "list", items |-> q]
DictOf(q) == [kind |-> "dict", items |-> q]
Scalar == [kind |-> "str", items |-> <<>>]

\* a project entry from its three fields; a field without value is a null
\* (`projeto:` with nothing after it), which .get() returns as None like an
\* absent one
Projeto(nome_proj, classe, repos_) ==
    Dict3("projeto", nome_proj, "classe", classe, "repositorios", repos_)

\* the project entries of the first client: well-formed with a flat list or
\* with a group, and malformed in each of the four ways
ProjectEntries ==
    { Projeto("app", "core", ListOf(<<"r1">>)),
      Projeto("app", "core", DictOf(<<[key |-> "g", val |-> <<"r1">>]>>)),
      Projeto(None, "core", ListOf(<<"r1">>)),
      Projeto("app", None, ListOf(<<"r1">>)),
      Projeto("app", "core", NoRepos),
      Projeto("app", "core", Scalar) }

ProjectLists ==
    UNION {[1..n -> ProjectEntries] : n \in 0..MaxProjects}

Acme(projetos) ==
    Dict3("urlBase", "https://git.example.com/", "diretorioBase", "/a",
          "projetos", projetos)
\* the second client, complete or without its urlBase
Betas ==
    { Dict3("urlBase", "git@example.com:", "diretorioBase", "/b",
            "projetos", <<Projeto("app", "core", ListOf(<<"r2.git">>))>>),
      Dict3("urlBase", None, "diretorioBase", "/b",
            "projetos", <<Projeto("app", "core", ListOf(<<"r2.git">>))>>) }

Clientes(q) == <<[key |-> "clientes", val |-> q]>>

\* what load_config may find: no file, a file that does not parse, an empty
\* file (safe_load gives None, and main fails on None.get), a file without
\* clients section or with an empty one, and the manifests of one or two
\* clients
Manifests ==
    { [load |-> "missing", data |-> <<>>],
      [load |-> "unparseable", data |-> <<>>],
      [load |-> "empty", data |-> <<>>],
      [load |-> "ok", data |-> <<>>],
      [load |-> "ok", data |-> Clientes(<<>>)] }
    \cup { [load |-> "ok",
            data |-> Clientes(<<[key |-> "acme", val |-> Acme(p)]>>)]
           : p \in {q \in ProjectLists : Len(q) <= 1} }
    \cup { [load |-> "ok",
            data |-> Clientes(<<[key |-> "acme", val |-> Acme(p)],
                               [key |-> "beta", val |-> b]>>)]
           : p \in ProjectLists, b \in Betas }

\* the values of --cliente
Requests ==
    {None, "", "acme", "ghost", "acme,ghost", "acme, acme", "beta,acme",
     "ghost,nobody"}

\* every process_repository call the manifest can give rise to
AllEntries(cfg) ==
    IF cfg.load = "ok"
      THEN ProcessClientes(GetOr(cfg.data, "clientes", <<>>)).entries
      ELSE <<>>

\* The working copies the jobs of a manifest find: nothing yet, with an origin
\* that has one branch or none, or a copy with a local branch whose upstream
\* is gone.
MainRepoStates ==
    { NoRepo({"main"}), NoRepo({}),
      [exists |-> TRUE, local |-> {"dev", "main"}, head |-> "main",
       up |-> [b \in {"dev", "main"} |-> IF b = "dev" THEN "master" ELSE "main"],
       refs |-> {Detached, "main", "master"}, remote |-> {Detached, "main"}] }

InitMain ==
    /\ config \in Manifests
    /\ args_cliente \in Requests
    /\ selected = <<>>
    /\ entries = <<>>
    /\ warnings = <<>>
    /\ jobs = <<>>
    /\ \E st \in MainRepoStates :
          repos = [i \in {AllEntries(config)[k].id :
                             k \in 1..Len(AllEntries(config))} |-> st]
    /\ delete_gone_branches \in BOOLEAN
    /\ git_found \in BOOLEAN
    /\ gitclone_command = None
    /\ pc = "start"
    /\ InitState

\* a mutant of PreambleExit: a filter that matches nothing ends the run with 0
PreambleExit_Mutant(cfg, all_clientes_data, filtered) ==
    IF cfg.load # "ok" THEN 1
    ELSE IF all_clientes_data = <<>> THEN 1
    ELSE IF filtered = <<>> THEN 0
    ELSE None

\* main and the functions it calls before its loop: the sys.exit they make,
\* None when the run goes on (load_config fails, or main fails on the None of
\* an empty file; no clients section; filter_clientes finds nothing)
PreambleExit(cfg, all_clientes_data, filtered) ==
    IF cfg.load # "ok" THEN 1
    ELSE IF all_clientes_data = <<>> THEN 1
    ELSE IF filtered = <<>> THEN 1
    ELSE None

\* main up to its loop: load_config, the clients section, filter_clientes,
\* and the process_repository calls the loop over the clients will make
Main ==
    /\ pc = "start"
    /\ LET all_clientes_data ==
               IF config.load = "ok"
                 THEN GetOr(config.data, "clientes", <<>>) ELSE <<>>
       IN  IF config.load # "ok" \/ all_clientes_data = <<>>
             THEN /\ pc' = "done"
                  /\ exit_code' = PreambleExit(config, all_clientes_data, <<>>)
                  /\ UNCHANGED <<jobs, selected, entries, warnings>>
             ELSE \E order \in Orders(IF Truthy(args_cliente)
                                         THEN SelectedNames(args_cliente)
                                         ELSE {}) :
                    LET f == FilterClientes(all_clientes_data, args_cliente, order)
                        walk == ProcessClientes(f.filtered)
                        missing ==
                            IF f.not_found = {} THEN <<>>
                            ELSE <<[at |-> 0, kind |-> "cliente-nao-encontrado",
                                    client |-> None,
                                    what |-> Sorted(f.not_found)]>>
                    IN  /\ warnings' = missing \o walk.warnings
                        /\ selected' = [i \in 1..Len(f.filtered) |-> f.filtered[i].key]
                        /\ entries' = walk.entries
                        /\ jobs' = [i \in 1..Len(walk.entries) |-> walk.entries[i].id]
                        /\ pc' = IF f.filtered = <<>> THEN "done" ELSE "main"
                        /\ exit_code' =
                              PreambleExit(config, all_clientes_data, f.filtered)
    /\ UNCHANGED <<config, args_cliente, delete_gone_branches, gitclone_command,
                   git_found, repos, checkout_report, job, frame, start, log,
                   faults, hist, rendered>>

NextMain ==
    \/ Main
    \/ Next

SpecMain == InitMain /\ [][NextMain]_vars

\* ------------------------------------------------------- job construction
\* One client with a project that lists a repository flat and a project of
\* the same class and name that lists it under a group.  The components of a
\* path are relative names; diretorioBase is absolute or relative.
JobUrls == {"https://git.example.com/", "https://git.example.com",
            "git@example.com:", "git@example.com:org"}
JobDirs == {"/w", "/w/", "w"}
JobClasses == {"core", "lib"}
JobRepos == {"svc", "svc.git", "org/svc.git", "git"}
JobGroups == {"g", "front"}

InitJob ==
    /\ \E u \in JobUrls, d \in JobDirs, c \in JobClasses, r \in JobRepos,
          g \in JobGroups :
          config = [load |-> "ok",
                    data |-> Clientes(<<[key |-> "acme", val |->
                       Dict3("urlBase", u, "diretorioBase", d, "projetos",
                             << Projeto("app", c, ListOf(<<r>>)),
                                Projeto("app", c,
                                        DictOf(<<[key |-> g, val |-> <<r>>]>>)) >>)]>>)]
    /\ args_cliente = None
    /\ selected = <<>>
    /\ entries = <<>>
    /\ warnings = <<>>
    /\ jobs = <<>>
    /\ repos = [r \in Repos |-> NoRepo({})]
    /\ delete_gone_branches = FALSE
    /\ git_found = TRUE
    /\ gitclone_command = None
    /\ pc = "start"
    /\ InitState

SpecJob == InitJob /\ [][Main]_vars

\* Two process_repository calls of one run: the manifests that give two
\* calls, through one flat list, through two project entries of one client,
\* or through two clients.
PathDirs == {"/w", "/v"}
PathRepos == {"svc", "svc.git", "api", "g/svc"}
PathGroups == {None, "g"}
Layouts == {"one-list", "two-projects", "two-clients"}
RepoField(g, r) ==
    IF g = None THEN ListOf(<<r>>) ELSE DictOf(<<[key |-> g, val |-> <<r>>]>>)
Cliente(dir_base, projetos) ==
    Dict3("urlBase", "https://git.example.com/", "diretorioBase", dir_base,
          "projetos", projetos)

InitPaths ==
    /\ \E layout \in Layouts, d \in PathDirs, c1 \in JobClasses,
          c2 \in JobClasses, r1 \in PathRepos, r2 \in PathRepos,
          g1 \in PathGroups, g2 \in PathGroups :
          config = [load |-> "ok",
                    data |-> Clientes(
                       IF layout = "one-list"
                       THEN <<[key |-> "acme", val |->
                               Cliente("/w", <<Projeto("app", c1, ListOf(<<r1, r2>>))>>)]>>
                       ELSE IF layout = "two-projects"
                       THEN <<[key |-> "acme", val |->
                               Cliente("/w", <<Projeto("app", c1, RepoField(g1, r1)),
                                               Projeto("app", c2, RepoField(g2, r2))>>)]>>
                       ELSE <<[key |-> "acme", val |->
                               Cliente("/w", <<Projeto("app", c1, RepoField(g1, r1))>>)],
                              [key |-> "beta", val |->
                               Cliente(d, <<Projeto("app", c2, RepoField(g2, r2))>>)]>>)]
    /\ args_cliente = None
    /\ selected = <<>>
    /\ entries = <<>>
    /\ warnings = <<>>
    /\ jobs = <<>>
    /\ repos = [r \in Repos |-> NoRepo({})]
    /\ delete_gone_branches = FALSE
    /\ git_found = TRUE
    /\ gitclone_command = None
    /\ pc = "start"
    /\ InitState

SpecPaths == InitPaths /\ [][Main]_vars

\* ----------------------------------------------------------------- claims
\* what the history of the current job says
Has(e) == Contains(log, e)
Did(op) == \E i \in 1..Len(log) : log[i][1] = op
DidOn(op, b) == \E i \in 1..Len(log) : log[i][1] = op /\ log[i][2] = b
Returned == pc = "job_done"
Synced == Did("rev-parse")
FetchOk == Has(Ev("fetch", Id, TRUE))
EnumOk == Has(Ev("branch-r", Id, TRUE))
ScanOk == Has(Ev("branch-vv", Id, TRUE))

\* C1: restore guarantee.  When update_repository_branches returns: if a named
\* branch B was checked out when it started and the final checkout of B
\* succeeded, B is checked out; if that checkout failed and a checkout of main
\* or master succeeded, main or master is checked out.
C1_Restore ==
    (Returned /\ Synced /\ start.rp.head \in Names) =>
        LET B == start.rp.head IN
        /\ Has(Ev("return", B, TRUE)) => Rp.head = B
        /\ (Has(Ev("return", B, FALSE))
            /\ \E i \in 1..Len(log) : log[i][1] = "default" /\ log[i][3])
           => Rp.head \in {"main", "master"}

\* a pass that started on a named branch, failed to return to it and fell back
\* to master after main had failed too
C1_Witness ==
    /\ Returned /\ start.rp.head \in Names
    /\ Has(Ev("return", start.rp.head, FALSE))
    /\ Has(Ev("default", "main", FALSE))
    /\ Has(Ev("default", "master", TRUE))
    /\ Rp.head = "master"

\* the local branches that, when the job started, tracked an origin branch
\* that no longer exists at the origin
GoneAtStart ==
    {L \in start.rp.local :
        start.rp.up[L] # NoUp /\ start.rp.up[L] \notin start.rp.remote}

InJob == pc \notin {"main", "done"}

\* C2: gone-branch detection with pruning disabled.  With
\* delete_gone_branches_flag false no local branch is ever deleted, and after
\* a pass whose fetch, enumeration and branch listing succeeded every local
\* branch L tracking a vanished origin/X still exists and X is recorded under
\* branches-removidas for the repository.
C2_ReportOnly ==
    (InJob /\ ~delete_gone_branches) =>
        /\ start.rp.local \subseteq Rp.local
        /\ (Returned /\ FetchOk /\ EnumOk /\ ScanOk) =>
              \A L \in GoneAtStart :
                 /\ L \in Rp.local
                 /\ Contains(Recorded(checkout_report, Id, REMOVED),
                             start.rp.up[L])

\* a finished report-only pass over a working copy with a gone branch
C2_Witness ==
    /\ Returned /\ ~delete_gone_branches /\ FetchOk /\ EnumOk /\ ScanOk
    /\ \E L \in GoneAtStart :
          /\ start.rp.up[L] # L
          /\ L \in Rp.local
          /\ Contains(Recorded(checkout_report, Id, REMOVED), start.rp.up[L])

\* no command of the current job failed spuriously
NoFault == faults = start.faults

\* C3 as stated, read in its favour (a pass whose fetch, enumeration and
\* branch listing succeeded and in which no command failed spuriously): after
\* a pass with the flag set, a gone local branch that was not the checked-out
\* branch no longer exists locally.
C3_Original ==
    (Returned /\ delete_gone_branches /\ FetchOk /\ EnumOk /\ ScanOk /\ NoFault)
        => \A L \in GoneAtStart : L # start.rp.head => L \notin Rp.local

\* C3 amended: after a pass with the flag set whose fetch, enumeration and
\* branch listing succeeded, a gone local branch L (tracking the vanished
\* origin/X) that was not the checked-out branch is recorded under
\* branches-com-falha or no longer tracks origin/X: it is deleted, and exists
\* again only as a new branch tracking origin/L when the origin has a branch L.
C3_Pruned ==
    (Returned /\ delete_gone_branches /\ FetchOk /\ EnumOk /\ ScanOk) =>
        \A L \in GoneAtStart :
            L # start.rp.head =>
                \/ Contains(Recorded(checkout_report, Id, FAILED), L)
                \/ L \notin Rp.local /\ DidOn("branch-d", L)
                \/ /\ L \in Rp.local /\ L \in Rp.remote /\ Rp.up[L] = L
                   /\ DidOn("branch-d", L)

\* a pruning pass that deleted a gone branch which was not checked out
C3_Witness ==
    /\ Returned /\ delete_gone_branches /\ FetchOk /\ EnumOk /\ ScanOk
    /\ \E L \in GoneAtStart :
          L # start.rp.head /\ L \notin Rp.local /\ DidOn("branch-d", L)

\* the commands of the current job that try to delete branch b
DeleteTried(b) == DidOn("branch-d", b) \/ DidOn("branch-D", b)

\* the deletion loop of the current job is over
PastDeletion ==
    pc \in {"checkout", "track", "return_original", "return_default", "job_done"}

\* C4 as stated: when a gone branch is the checked-out branch at the moment
\* its deletion is considered, no delete is attempted for it.
C4_Original ==
    InJob => \A b \in Names :
        (DidOn("probe", b) /\ b = start.rp.head) => ~DeleteTried(b)

\* C4 amended: the checked-out branch is never deleted; when the probe of the
\* current branch succeeds and names the gone branch, no delete (safe or
\* forced) is attempted for it and it is recorded under branches-com-falha;
\* when the probe itself fails the deletes are attempted, git refuses them and
\* the branch is recorded all the same; every other candidate is still probed.
C4_CurrentKept ==
    InJob =>
        /\ start.rp.head \in start.rp.local => start.rp.head \in Rp.local
        /\ \A b \in Names :
              /\ (Has(Ev("probe", b, TRUE)) /\ b = start.rp.head) =>
                    /\ ~DeleteTried(b)
                    /\ Contains(Recorded(checkout_report, Id, FAILED), b)
              /\ (Has(Ev("probe", b, FALSE)) /\ b = start.rp.head
                  /\ (PastDeletion \/ Head(branches_to_delete) # b)) =>
                    /\ Has(Ev("branch-d", b, FALSE))
                    /\ Has(Ev("branch-D", b, FALSE))
                    /\ Contains(Recorded(checkout_report, Id, FAILED), b)
        /\ (PastDeletion /\ ScanOk /\ delete_gone_branches) =>
              \A L \in GoneAtStart : DidOn("probe", L)

\* the checked-out branch was a deletion candidate, was skipped, and a second
\* candidate was deleted after it
C4_Witness ==
    /\ PastDeletion /\ delete_gone_branches
    /\ \E b \in GoneAtStart, c \in GoneAtStart :
          /\ b = start.rp.head /\ c # b
          /\ \E i, j \in 1..Len(log) :
                i < j /\ log[i] = Ev("probe", b, TRUE) /\ log[j] = Ev("branch-d", c, TRUE)
          /\ ~DeleteTried(b) /\ b \in Rp.local /\ c \notin Rp.local

\* the reconciliation attempts of the current job, in the order made
IsCheckout(e) == e[1] = "checkout"
Attempts == SelectSeq(log, IsCheckout)
BothFailed(b) == Has(Ev("checkout", b, FALSE)) /\ Has(Ev("track", b, FALSE))
\* b was put under branches-com-falha before or by the deletion step
FailedEarlier(b) ==
    \/ Contains(Recorded(start.report, Id, FAILED), b)
    \/ Has(Ev("probe", b, TRUE)) /\ b = start.rp.head
    \/ Has(Ev("branch-D", b, FALSE))

\* C5: per-branch reconciliation never aborts the synchronization.  After a
\* pass whose fetch and enumeration succeeded, every remote branch other than
\* HEAD was attempted exactly once, in sorted order; a tracking branch was
\* tried exactly for the branches whose direct checkout failed, right after
\* it; and the loop recorded a branch under branches-com-falha exactly when
\* both attempts failed.
C5_Reconcile ==
    (Returned /\ FetchOk /\ EnumOk) =>
        /\ {Attempts[i][2] : i \in 1..Len(Attempts)} = Rp.remote \ {Detached}
        /\ \A i, j \in 1..Len(Attempts) :
              i < j => StrLess(Attempts[i][2], Attempts[j][2])
        /\ \A i \in 1..Len(log) :
              /\ log[i][1] = "checkout" /\ ~log[i][3] =>
                    i < Len(log) /\ log[i+1][1] = "track" /\ log[i+1][2] = log[i][2]
              /\ log[i][1] = "track" =>
                    i > 1 /\ log[i-1] = Ev("checkout", log[i][2], FALSE)
        /\ \A b \in Names :
              /\ BothFailed(b) =>
                    Contains(Recorded(checkout_report, Id, FAILED), b)
              /\ (Contains(Recorded(checkout_report, Id, FAILED), b)
                  /\ ~FailedEarlier(b)) => BothFailed(b)

\* a pass in which both attempts failed for dev and main was still reconciled
C5_Witness ==
    /\ Returned /\ FetchOk /\ EnumOk
    /\ BothFailed("dev")
    /\ Has(Ev("checkout", "main", FALSE)) /\ Has(Ev("track", "main", TRUE))
    /\ Has(Ev("checkout", "master", TRUE))
    /\ Recorded(checkout_report, Id, FAILED) = <<"dev">>

\* C6: for a repository with no local branch before the job, after a pass whose
\* fetch and enumeration succeeded every remote branch not recorded under
\* branches-com-falha is a local branch tracking its remote ref, so there are
\* at least N - (number recorded as failed) local tracking branches.
C6_TrackingBranches ==
    (Returned /\ start.rp.local = {} /\ FetchOk /\ EnumOk) =>
        /\ \A b \in Rp.remote \cap Names :
              ~Contains(Recorded(checkout_report, Id, FAILED), b) =>
                  b \in Rp.local /\ Rp.up[b] = b
        /\ Cardinality({b \in Rp.local : Rp.up[b] = b /\ b \in Rp.remote})
              >= Cardinality(Rp.remote \cap Names)
                 - Len(Recorded(checkout_report, Id, FAILED))

\* an existing working copy without any local branch got two of the three
\* remote branches as tracking branches, the third being recorded as failed
C6_Witness ==
    /\ Returned /\ start.rp.local = {} /\ start.rp.exists /\ FetchOk /\ EnumOk
    /\ Rp.remote \cap Names = Names
    /\ Recorded(checkout_report, Id, FAILED) = <<"main">>
    /\ Rp.local = {"dev", "master"}

\* the second of two jobs on the same working copy has returned, and
\* update_repository_branches ran in both
IsRevParse(e) == e[1] = "rev-parse"
SecondPassDone ==
    /\ Returned /\ job = 2 /\ jobs[1] = jobs[2]
    /\ SelectSeq(hist[1].log, IsRevParse) # <<>>
    /\ Synced

RestoreTried == Did("return") \/ Did("default")
\* commands of the steps a degraded pass skips
ScanOrDelete ==
    Did("branch-vv") \/ Did("probe") \/ Did("branch-d") \/ Did("branch-D")
Reconciled == Did("checkout") \/ Did("track") \/ Did("skip")

\* C8: a failed fetch degrades the pass: no enumeration, no gone-branch scan or
\* deletion and no per-branch checkout is made, the fetch error is recorded
\* under branches-com-falha and the restore step is still attempted; a failed
\* remote prune alone records nothing and does not degrade the pass.
C8_FetchFailure ==
    InJob =>
        /\ Has(Ev("fetch", Id, FALSE)) =>
              /\ ~Did("branch-r") /\ ~ScanOrDelete /\ ~Reconciled
              /\ Contains(Recorded(checkout_report, Id, FAILED), FetchErr)
              /\ pc \in {"return_original", "return_default", "job_done"}
              /\ Returned => RestoreTried
        /\ Has(Ev("remote-prune", Id, FALSE)) =>
              /\ pc = "fetch" => checkout_report = start.report
              /\ (Returned /\ FetchOk) =>
                    /\ Did("branch-r")
                    /\ EnumOk => Did("branch-vv")

\* a pass whose fetch failed, ended after a fallback to main
C8_Witness ==
    /\ Returned /\ Has(Ev("fetch", Id, FALSE))
    /\ Has(Ev("default", "main", TRUE))
    /\ Recorded(checkout_report, Id, FAILED) = <<FetchErr>>

\* C9 as stated: after a failed enumeration an entry is recorded under
\* branches-com-falha for the repository, as after a failed fetch.
C9_Original ==
    (InJob /\ Has(Ev("branch-r", Id, FALSE))) =>
        Recorded(checkout_report, Id, FAILED) # <<>>

\* C9 amended: a failed enumeration skips the gone-branch scan and the
\* per-branch reconciliation and still attempts the restore step, but, unlike
\* a failed fetch, records nothing in the report.
C9_EnumFailure ==
    (InJob /\ Has(Ev("branch-r", Id, FALSE))) =>
        /\ ~ScanOrDelete /\ ~Reconciled
        /\ checkout_report = start.report
        /\ pc \in {"return_original", "return_default", "job_done"}
        /\ Returned => RestoreTried

\* a pass whose enumeration failed, ended back on its original branch
C9_Witness ==
    /\ Returned /\ Has(Ev("branch-r", Id, FALSE))
    /\ start.rp.head \in Names /\ Has(Ev("return", start.rp.head, TRUE))
    /\ checkout_report = <<>>

\* a finished job whose clone returned False
CloneFailed(h) == h.log # <<>> /\ h.log[1] = Ev("clone", h.id, FALSE)

\* C10: a failed clone is fatal for its job only: update_repository_branches
\* is not invoked for the job, the job adds nothing to the report, and the
\* run goes on with the next job instead of ending.
C10_CloneFailure ==
    /\ (pc # "main" /\ start.job > 0
        /\ Has(Ev("clone", jobs[start.job], FALSE))) =>
          /\ log = <<Ev("clone", jobs[start.job], FALSE)>>
          /\ checkout_report \in {start.report, SortLists(start.report)}
          /\ pc \in {"job_done", "done"}
          /\ pc = "done" =>
                job = Len(jobs) + 1 /\ exit_code = 0 /\ Len(hist) = Len(jobs)
    /\ \A i \in 1..Len(hist) :
          (CloneFailed(hist[i]) /\ i < Len(jobs)) =>
              /\ hist[i].report = hist[i].start.report
              /\ job > i
              /\ pc = "done" => start.job > i

\* the clone of the first job failed and the second job was cloned and
\* synchronized
C10_Witness ==
    /\ Len(hist) = 2 /\ CloneFailed(hist[1])
    /\ jobs[1] # jobs[2]
    /\ hist[2].log[1] = Ev("clone", jobs[2], TRUE)
    /\ SelectSeq(hist[2].log, IsCheckout) # <<>>
    /\ pc = "done" /\ exit_code = 0

\* C11: a pull failure is not fatal.  When the .git directory exists at the
\* destination the first command of the job is a pull, the next one is the
\* rev-parse that opens update_repository_branches whether the pull succeeded
\* or failed, and the pull leaves the report as it was; without a .git
\* directory no pull is made.
C11_PullNonFatal ==
    InJob =>
        /\ (start.rp.exists /\ pc # "pull") =>
              /\ log # <<>> /\ log[1][1] = "pull"
              /\ pc = "rev_parse" =>
                    Len(log) = 1 /\ checkout_report = start.report
              /\ pc # "rev_parse" => Len(log) >= 2 /\ log[2][1] = "rev-parse"
        /\ ~start.rp.exists => ~Did("pull")

\* a job whose pull failed went on to reconcile a branch, and the report is
\* empty
C11_Witness ==
    /\ Returned /\ start.rp.exists
    /\ log[1] = Ev("pull", Id, FALSE)
    /\ Did("checkout") /\ FetchOk
    /\ checkout_report = <<>>

\* the branches the scan of the current job marked for deletion
Marked(b) == DidOn("probe", b) \/ Contains(branches_to_delete, b)
\* the reconciliation loop of the current job checked b out or created it
ReconciledOk(b) == Has(Ev("checkout", b, TRUE)) \/ Has(Ev("track", b, TRUE))
IsScanOrDelete(e) == e[1] \in {"branch-vv", "probe", "branch-d", "branch-D"}
IsReconcile(e) == e[1] \in {"checkout", "track", "skip"}
\* the scan and every deletion come before the first reconciliation step
ScanPrecedes ==
    /\ \A i, j \in 1..Len(log) :
          (IsScanOrDelete(log[i]) /\ IsReconcile(log[j])) => i < j
    /\ pc \in {"checkout", "track"} => branches_to_delete = <<>>

\* C12 as stated, read in its favour (no command fails spuriously): the scan
\* and the deletions precede the reconciliation, and a branch marked for
\* deletion is never checked out or re-created by the reconciliation loop of
\* the same pass.
C12_Original ==
    (InJob /\ NoFault) =>
        /\ ScanPrecedes
        /\ \A b \in Names : Marked(b) => ~ReconciledOk(b)

\* C12 amended: the scan and the deletions precede the reconciliation; a
\* branch marked for deletion is checked out or re-created by the loop only
\* when the origin has a branch of the same name, and when it had been deleted
\* it comes back as a new branch tracking origin/<name>.
C12_Ordering ==
    InJob =>
        /\ ScanPrecedes
        /\ \A b \in Names :
              (Marked(b) /\ ReconciledOk(b)) =>
                  /\ b \in Rp.remote /\ b \in Rp.local
                  /\ (Has(Ev("branch-d", b, TRUE)) \/ Has(Ev("branch-D", b, TRUE)))
                        => Rp.up[b] = b

\* two branches were marked and deleted before the loop started; the origin
\* has neither name and the loop re-created neither
C12_Witness ==
    /\ Returned /\ delete_gone_branches
    /\ \E b \in Names, c \in Names :
          /\ b # c
          /\ Has(Ev("branch-d", b, TRUE)) /\ Has(Ev("branch-d", c, TRUE))
          /\ ~ReconciledOk(b) /\ ~ReconciledOk(c)
          /\ b \notin Rp.local /\ c \notin Rp.local
    /\ Did("checkout")

\* the values the calls so far recorded for an identifier and a category
CallsFor(id, type) ==
    {log[i][3] : i \in {k \in 1..Len(log) : log[k][1] = id /\ log[k][2] = type}}
NoDup(q) == \A i, j \in 1..Len(q) : i # j => q[i] # q[j]

\* C13: deduplication invariant of the report.  After any sequence of
\* _add_to_report calls the list of every identifier and category holds each
\* value at most once and exactly the values recorded for the pair, and one
\* more call, whatever it records, changes no list but the one it names.
C13_Dedup ==
    \A id \in Repos, type \in Categories :
        LET list == Recorded(checkout_report, id, type)
        IN  /\ NoDup(list)
            /\ Range(list) = CallsFor(id, type)
            /\ \A id2 \in Repos, type2 \in Categories, b \in RecordNames :
                  <<id2, type2>> # <<id, type>> =>
                      Recorded(AddToReport(checkout_report, id2, type2, b),
                               id, type) = list

\* a value was recorded twice for one pair and is listed once, beside another
\* value of the pair and a list of the other category
C13_Witness ==
    /\ pc = "main" /\ Len(log) = 4
    /\ log[1] = log[3] /\ log[2][1] = log[1][1] /\ log[2][2] # log[1][2]
    /\ log[4][1] = log[1][1] /\ log[4][2] = log[1][2] /\ log[4][3] # log[1][3]
    /\ Recorded(checkout_report, log[1][1], log[1][2]) = <<log[1][3], log[4][3]>>
    /\ Recorded(checkout_report, log[2][1], log[2][2]) = <<log[2][3]>>

\* the rendering of a set of recorded triples with its identifiers sorted,
\* the values of each list sorted, and the categories of each identifier in
\* the order cats(id)
RenderingOf(T, cats(_)) ==
    LET ids == Sorted({t[1] : t \in T})
    IN  [i \in 1..Len(ids) |->
           [key |-> ids[i],
            val |-> [j \in 1..Len(cats(ids[i])) |->
                       [key |-> cats(ids[i])[j],
                        val |-> Sorted({t[3] : t \in
                                   {x \in T : x[1] = ids[i]
                                               /\ x[2] = cats(ids[i])[j]}})]]]]

\* the categories recorded for an identifier: sorted, and in the order of
\* their first recording
SortedCats(id) ==
    Sorted({log[i][2] : i \in {k \in 1..Len(log) : log[k][1] = id}})
FirstCats(id) ==
    LET IsOf(c) == c[1] = id
        calls == SelectSeq(log, IsOf)
    IN  IF calls = <<>> THEN <<>>
        ELSE IF \A i \in 1..Len(calls) : calls[i][2] = calls[1][2]
          THEN <<calls[1][2]>>
        ELSE <<calls[1][2], CHOOSE c \in Categories : c # calls[1][2]>>

\* C14 as stated: what is rendered is fixed by the set of triples recorded:
\* identifiers, categories within an identifier and values within a category
\* all come out sorted.
C14_Original ==
    (pc = "done" /\ log # <<>>) => rendered = RenderingOf(Range(log), SortedCats)

\* C14 amended: identifiers and the values of each list come out sorted and
\* are those recorded; the categories of an identifier come out in the order
\* in which they were first recorded for it.
C14_Rendering ==
    (pc = "done" /\ log # <<>>) => rendered = RenderingOf(Range(log), FirstCats)

\* identifiers and values recorded in descending order are rendered ascending
C14_Witness ==
    /\ pc = "done"
    /\ log = << <<"r2", FAILED, "main">>, <<"r2", FAILED, "dev">>,
                <<"r1", REMOVED, "main">>, <<"r1", REMOVED, "dev">> >>
    /\ rendered = << [key |-> "r1", val |->
                        <<[key |-> REMOVED, val |-> <<"dev", "main">>]>>],
                     [key |-> "r2", val |->
                        <<[key |-> FAILED, val |-> <<"dev", "main">>]>>] >>

\* what the run read and how it ended
AllClientes ==
    IF config.load = "ok" THEN GetOr(config.data, "clientes", <<>>) ELSE <<>>
Ended == pc = "done"
\* the manifest was not loaded, has no clients, or the filter matches nothing
PreambleFails ==
    \/ config.load # "ok"
    \/ AllClientes = <<>>
    \/ /\ Truthy(args_cliente)
       /\ SelectedNames(args_cliente) \cap Keys(AllClientes) = {}
\* the run ended because the git executable was not found
GitMissing == log # <<>> /\ log[Len(log)][1] = "exit"
NoAnomaly ==
    /\ checkout_report = <<>>
    /\ \A i \in 1..Len(hist) : hist[i].report = <<>>

\* C15 as stated: every run that has ended rendered the report, after its
\* last job, and printed the nothing-to-report line exactly when no anomaly
\* was recorded.
C15_Original ==
    Ended =>
        /\ rendered # None
        /\ Len(hist) = Len(jobs)
        /\ rendered = NothingToReport <=> NoAnomaly

\* C15 amended: nothing is rendered before the run ends; a run that ends with
\* status 0 has rendered once, after the last job returned, the
\* nothing-to-report line exactly when no anomaly was recorded; a run that a
\* fatal condition ends (status 1) renders nothing.
C15_Rendered ==
    /\ ~Ended => rendered = None
    /\ (Ended /\ exit_code = 0) =>
          /\ rendered # None
          /\ Len(hist) = Len(jobs) /\ job = Len(jobs) + 1
          /\ rendered = NothingToReport <=> NoAnomaly
    /\ (Ended /\ exit_code # 0) => rendered = None

\* a run of two jobs without anomaly printed the nothing-to-report line
C15_Witness ==
    /\ Ended /\ exit_code = 0 /\ Len(hist) = 2 /\ NoAnomaly
    /\ rendered = NothingToReport
    /\ SelectSeq(hist[2].log, IsCheckout) # <<>>

EntriesOf(c) == LET IsOf(e) == e.client = c IN SelectSeq(entries, IsOf)
IsMissingWarning(w) == w.kind = "cliente-nao-encontrado"

\* C17: client filtering.  When names are requested: every requested name
\* absent from the manifest is named in the one warning of the filter; the
\* clients selected are exactly the requested ones present in the manifest,
\* each once; the walk makes the calls of each selected client once and no
\* call of another client; a run that ends with status 0 has processed them
\* all; when no requested name is present the run ends with status 1 before
\* any repository job.
C17_Filter ==
    (pc # "start" /\ config.load = "ok" /\ AllClientes # <<>>
     /\ Truthy(args_cliente)) =>
        LET req == SelectedNames(args_cliente)
            present == Keys(AllClientes)
        IN  /\ \A n \in req \ present :
                  \E i \in 1..Len(warnings) :
                      IsMissingWarning(warnings[i]) /\ Contains(warnings[i].what, n)
            /\ Len(SelectSeq(warnings, IsMissingWarning)) <= 1
            /\ Range(selected) = req \cap present /\ NoDup(selected)
            /\ \A i \in 1..Len(entries) : entries[i].client \in req \cap present
            /\ \A c \in req \cap present :
                  EntriesOf(c) = ProcessCliente(c, Get(AllClientes, c)).entries
            /\ (Ended /\ exit_code = 0) => Len(hist) = Len(entries)
            /\ req \cap present = {} =>
                  /\ Ended /\ exit_code = 1
                  /\ entries = <<>> /\ hist = <<>> /\ log = <<>>

\* "acme,ghost" with ghost absent: the run processed acme only, after one
\* warning that names ghost
C17_Witness ==
    /\ Ended /\ exit_code = 0
    /\ args_cliente = "acme,ghost"
    /\ Keys(AllClientes) = {"acme", "beta"}
    /\ selected = <<"acme">>
    /\ SelectSeq(warnings, IsMissingWarning) # <<>>
    /\ SelectSeq(warnings, IsMissingWarning)[1].what = <<"ghost">>
    /\ Len(hist) = 2
    /\ \A i \in 1..Len(hist) : entries[i].client = "acme"

\* a project entry lacks its name, its class or its repository field, or the
\* field is neither a list nor a mapping
Malformed(p) ==
    \/ ~Truthy(GetOr(p, "projeto", None))
    \/ ~Truthy(GetOr(p, "classe", None))
    \/ GetOr(p, "repositorios", NoRepos).kind \notin {"list", "dict"}
\* the repositories a well-formed entry lists
RECURSIVE GroupCount(_)
GroupCount(groups) ==
    IF groups = <<>> THEN 0 ELSE Len(Head(groups).val) + GroupCount(Tail(groups))
RepoCount(p) ==
    LET r == Get(p, "repositorios")
    IN  IF r.kind = "list" THEN Len(r.items) ELSE GroupCount(r.items)
RECURSIVE JobCount(_)
JobCount(projetos) ==
    IF projetos = <<>> THEN 0
    ELSE (IF Malformed(Head(projetos)) THEN 0 ELSE RepoCount(Head(projetos)))
         + JobCount(Tail(projetos))
\* the warnings of the walk about project entries of client c
ProjectWarnings(c) ==
    LET IsOf(w) == w.kind \in {"projeto-invalido", "formato-desconhecido"}
                   /\ w.client = c
    IN  SelectSeq(warnings, IsOf)
Complete(data) ==
    Truthy(GetOr(data, "urlBase", None)) /\ Truthy(GetOr(data, "diretorioBase", None))

\* C18: malformed project entries never abort the run.  For every selected
\* client with its two bases: each malformed entry gives one warning and no
\* process_repository call, each well-formed entry gives one call per
\* repository it lists, whatever precedes or follows it; the clients after it
\* are walked; and a run that ends with status 0 has processed every call.
C18_Malformed ==
    (pc # "start" /\ selected # <<>>) =>
        /\ \A c \in Range(selected) :
              LET data == Get(AllClientes, c)
                  ps == GetOr(data, "projetos", <<>>)
              IN  Complete(data) =>
                    /\ Len(ProjectWarnings(c))
                          = Cardinality({k \in 1..Len(ps) : Malformed(ps[k])})
                    /\ \A k \in 1..Len(ps) :
                          Malformed(ps[k]) =>
                              \E i \in 1..Len(ProjectWarnings(c)) :
                                  ProjectWarnings(c)[i].what = ps[k]
                    /\ Len(EntriesOf(c)) = JobCount(ps)
                    /\ \A i \in 1..Len(EntriesOf(c)) :
                          \E k \in 1..Len(ps) :
                              /\ ~Malformed(ps[k])
                              /\ EntriesOf(c)[i].projeto = Get(ps[k], "projeto")
                              /\ EntriesOf(c)[i].classe = Get(ps[k], "classe")
        /\ jobs = [i \in 1..Len(entries) |-> entries[i].id]
        /\ (Ended /\ exit_code = 0) => Len(hist) = Len(entries)

\* an entry without class came first: the run warned, then processed the
\* next project of the client and the project of the client after it
C18_Witness ==
    /\ Ended /\ exit_code = 0
    /\ selected = <<"acme", "beta">>
    /\ Len(GetOr(Get(AllClientes, "acme"), "projetos", <<>>)) = 2
    /\ GetOr(Get(AllClientes, "acme"), "projetos", <<>>)[1]
          = Projeto("app", None, ListOf(<<"r1">>))
    /\ Len(ProjectWarnings("acme")) = 1 /\ ProjectWarnings("acme")[1].at = 0
    /\ Len(hist) = 2
    /\ hist[1].id = "acme/core/app/g/r1" /\ hist[2].id = "beta/core/app/r2"

\* the part of s before its last n characters
Before(s, n) == SubSeq(s, 1, Len(s) - n)

\* C19: grouped versus flat manifests.  The call made for a repository of a
\* flat list and the call made for the same repository under a group, same
\* client, class and project, have the same remote URL; the destination and
\* the identifier of the second are those of the first with the group
\* segment inserted immediately before the repository name.
C19_GroupedVsFlat ==
    (pc = "main" /\ Len(entries) = 2
     /\ entries[1].grupo = None /\ entries[2].grupo # None
     /\ entries[1].repo = entries[2].repo
     /\ entries[1].classe = entries[2].classe
     /\ entries[1].projeto = entries[2].projeto
     /\ entries[1].client = entries[2].client) =>
        LET flat == entries[1]
            grouped == entries[2]
            name == ProcessarRepoName(flat.repo)
            n == Len(name)
            segment == grouped.grupo \o "/"
        IN  /\ grouped.url = flat.url
            /\ EndsWith(flat.dest, "/" \o name)
            /\ EndsWith(flat.id, "/" \o name)
            /\ grouped.dest = Before(flat.dest, n) \o segment \o name
            /\ grouped.id = Before(flat.id, n) \o segment \o name
            /\ grouped.dest # flat.dest /\ grouped.id # flat.id

\* org/svc.git of class core, flat and under the group front
C19_Witness ==
    /\ pc = "main" /\ Len(entries) = 2
    /\ entries[1].repo = "org/svc.git" /\ entries[2].repo = "org/svc.git"
    /\ entries[1].dest = "/w/core/app/org/svc"
    /\ entries[2].dest = "/w/core/app/front/org/svc"
    /\ entries[1].id = "acme/core/app/org/svc"
    /\ entries[2].id = "acme/core/app/front/org/svc"
    /\ entries[1].url = entries[2].url

\* the repository name without a trailing ".git"
Stripped(r) ==
    IF Len(r) >= 4 /\ SubSeq(r, Len(r) - 3, Len(r)) = ".git"
    THEN SubSeq(r, 1, Len(r) - 4) ELSE r
LastChar(s) == SubSeq(s, Len(s), Len(s))

\* C20: job construction.  For every call of the walk the URL is urlBase
\* followed by the repository name, with one '/' between them exactly when
\* urlBase ends in neither '/' nor ':', and the destination is the absolute
\* form of diretorioBase, then class, project, the group when there is one,
\* and the repository name without a trailing ".git".
C20_JobConstruction ==
    pc = "main" =>
        \A i \in 1..Len(entries) :
            LET e == entries[i]
                sep == IF LastChar(e.base_url) \in {"/", ":"} THEN "" ELSE "/"
                group == IF e.grupo = None THEN "" ELSE "/" \o e.grupo
                tail == "/" \o e.classe \o "/" \o e.projeto \o group
                            \o "/" \o Stripped(e.repo)
            IN  /\ e.url = e.base_url \o sep \o e.repo
                /\ e.dest = AbsPath(e.dir_base) \o tail
                /\ e.dir_base \in {"/w", "/w/"} => e.dest = "/w" \o tail
                /\ e.dir_base = "w" => e.dest = Cwd \o "/w" \o tail

\* urlBase https://git.example.com/, class core, project app, repository svc
C20_Witness ==
    /\ pc = "main" /\ Len(entries) = 2
    /\ entries[1].base_url = "https://git.example.com/"
    /\ entries[1].dir_base = "/w"
    /\ entries[1].classe = "core" /\ entries[1].projeto = "app"
    /\ entries[1].repo = "svc" /\ entries[1].grupo = None
    /\ entries[1].url = "https://git.example.com/svc"
    /\ entries[1].dest = "/w/core/app/svc"

\* the manifest entries two calls were made for are not the same entry
DistinctEntries(e, f) ==
    <<e.client, e.classe, e.projeto, e.grupo, e.repo>>
        # <<f.client, f.classe, f.projeto, f.grupo, f.repo>>

\* C21 as stated: no two calls of one run made for distinct manifest entries
\* (distinct client, class, project, group or repository name) have the same
\* destination path, and no two of them have the same repository identifier.
C21_Original ==
    pc = "main" =>
        \A i \in 1..Len(entries), j \in 1..Len(entries) :
            (i < j /\ DistinctEntries(entries[i], entries[j])) =>
                /\ entries[i].dest # entries[j].dest
                /\ entries[i].id # entries[j].id

\* the same for the destination alone
C21_DistinctDest ==
    pc = "main" =>
        \A i \in 1..Len(entries), j \in 1..Len(entries) :
            (i < j /\ DistinctEntries(entries[i], entries[j])) =>
                entries[i].dest # entries[j].dest

\* the same for the identifier alone
C21_DistinctId ==
    pc = "main" =>
        \A i \in 1..Len(entries), j \in 1..Len(entries) :
            (i < j /\ DistinctEntries(entries[i], entries[j])) =>
                entries[i].id # entries[j].id

\* how many times the current job ran op on b
CountOf(op, b) ==
    Cardinality({i \in 1..Len(log) : log[i][1] = op /\ log[i][2] = b})

\* C22: deletion escalation.  In every job with the flag set: a forced
\* delete of b comes right after a failed safe delete of b, and every failed
\* safe delete is followed by the forced one; a safe delete comes right after
\* the probe of the current branch; no branch is tried twice; a branch that
\* is not the checked-out one is put under branches-com-falha by the deletion
\* loop exactly when both deletes failed; and once the loop is over every
\* gone branch that was not checked out had its safe delete tried, whatever
\* happened to the candidates before it.
C22_Escalation ==
    InJob =>
        /\ \A i \in 1..Len(log) :
              /\ log[i][1] = "branch-D" =>
                    i > 1 /\ log[i - 1] = Ev("branch-d", log[i][2], FALSE)
              /\ (log[i][1] = "branch-d" /\ ~log[i][3]) =>
                    IF i = Len(log) THEN pc = "del_force"
                    ELSE log[i + 1][1] = "branch-D" /\ log[i + 1][2] = log[i][2]
              /\ (log[i][1] = "branch-d" /\ log[i][3]) =>
                    (i = Len(log) \/ log[i + 1][1] # "branch-D")
              /\ log[i][1] = "branch-d" =>
                    i > 1 /\ log[i - 1][1] = "probe" /\ log[i - 1][2] = log[i][2]
              /\ log[i][1] \in {"branch-d", "branch-D"} => delete_gone_branches
        /\ \A b \in Names :
              /\ CountOf("branch-d", b) <= 1 /\ CountOf("branch-D", b) <= 1
              /\ Has(Ev("branch-D", b, FALSE)) =>
                    Contains(Recorded(checkout_report, Id, FAILED), b)
              /\ (b # start.rp.head /\ ~Has(Ev("track", b, FALSE))
                  /\ ~Contains(Recorded(start.report, Id, FAILED), b)
                  /\ Contains(Recorded(checkout_report, Id, FAILED), b)) =>
                    /\ Has(Ev("branch-d", b, FALSE))
                    /\ Has(Ev("branch-D", b, FALSE))
        /\ (PastDeletion /\ ScanOk /\ delete_gone_branches) =>
              \A L \in GoneAtStart : L # start.rp.head => DidOn("branch-d", L)

\* both deletes of one candidate failed, the branch was recorded, and the
\* next candidate was deleted after it
C22_Witness ==
    /\ PastDeletion /\ delete_gone_branches
    /\ \E b \in GoneAtStart, c \in GoneAtStart :
          /\ b # c /\ b # start.rp.head /\ c # start.rp.head
          /\ \E i \in 1..Len(log) :
                /\ i + 3 <= Len(log)
                /\ log[i] = Ev("branch-d", b, FALSE)
                /\ log[i + 1] = Ev("branch-D", b, FALSE)
                /\ log[i + 2][1] = "probe" /\ log[i + 2][2] = c
                /\ log[i + 3] = Ev("branch-d", c, TRUE)
          /\ Contains(Recorded(checkout_report, Id, FAILED), b)
          /\ ~Contains(Recorded(checkout_report, Id, FAILED), c)
          /\ b \in Rp.local /\ c \notin Rp.local

\* the restore of the current job: its commands, and where it stands
IsRestore(e) == e[1] \in {"return", "default"}
IsDefault(e) == e[1] = "default"
Restores == SelectSeq(log, IsRestore)
Fallbacks == SelectSeq(log, IsDefault)
InRestore == pc \in {"return_original", "return_default"}
AtOrPastRestore == InRestore \/ Returned
NoOriginal == original_branch \in {None, Detached}
\* the checkouts of the reconciliation loop that succeeded
IsLanding(e) == e[1] \in {"checkout", "track"} /\ e[3]
Landings == SelectSeq(log, IsLanding)
RestoreFailed == \A i \in 1..Len(Restores) : ~Restores[i][3]

\* C23, the states: the original branch is tried only when one was recorded,
\* and first; the fallback is tried only when none was recorded or its
\* checkout failed, and always then; it tries main, then master only after
\* main failed, and nothing after a success; when no checkout of the restore
\* succeeded the repository is on the branch of the last successful checkout
\* of the reconciliation loop.
C23_States ==
    (InJob /\ Synced) =>
        /\ \A i \in 1..Len(Restores) :
              Restores[i][1] = "return" =>
                  i = 1 /\ ~NoOriginal /\ Restores[i][2] = original_branch
        /\ Fallbacks # <<>> =>
              /\ NoOriginal \/ Has(Ev("return", original_branch, FALSE))
              /\ \A i \in 1..Len(log) : log[i][1] = "return" => ~log[i][3]
              /\ Len(Fallbacks) <= 2
              /\ Fallbacks[1][2] = "main"
              /\ Len(Fallbacks) = 2 =>
                    ~Fallbacks[1][3] /\ Fallbacks[2][2] = "master"
        /\ Has(Ev("default", "main", TRUE)) => ~DidOn("default", "master")
        /\ Returned =>
              /\ (NoOriginal \/ Has(Ev("return", original_branch, FALSE)))
                    => DidOn("default", "main")
              /\ Has(Ev("default", "main", FALSE)) => DidOn("default", "master")
              /\ \A i \in 1..Len(Restores) :
                    Restores[i][3] => i = Len(Restores) /\ Rp.head = Restores[i][2]
        /\ (AtOrPastRestore /\ RestoreFailed /\ Landings # <<>>) =>
              Rp.head = Landings[Len(Landings)][2]

\* C23, the steps: no step of the restore changes the report, and a failed
\* checkout of the restore leaves the repository as it was.
C23_Steps ==
    InRestore =>
        /\ checkout_report' = checkout_report
        /\ (log' # log /\ ~log'[Len(log')][3]) => repos' = repos

\* C23: restore fallback order.
C23_FallbackOrder == [](C23_States) /\ [][C23_Steps]_vars

\* the original branch, main and master all failed after the loop had landed
\* on dev: nothing was recorded and dev is checked out
C23_Witness ==
    /\ Returned
    /\ Len(Restores) = 3 /\ RestoreFailed
    /\ Restores[1][1] = "return"
    /\ Fallbacks = <<Ev("default", "main", FALSE), Ev("default", "master", FALSE)>>
    /\ Landings # <<>> /\ Rp.head = Landings[Len(Landings)][2]
    /\ Rp.head # start.rp.head

\* the report was rendered after at least one job
RenderedAfterJobs == pc = "done" /\ exit_code = 0 /\ hist # <<>>
\* the report as the last job left it, which is the report _print_report found
BeforeRender == hist[Len(hist)].report
\* the branches of every list of a report, whatever their order
Unordered(rep) ==
    [i \in 1..Len(rep) |->
        [key |-> rep[i].key,
         val |-> [j \in 1..Len(rep[i].val) |->
                    [key |-> rep[i].val[j].key,
                     val |-> Range(rep[i].val[j].val)]]]]

\* C24 as stated: _print_report leaves the report exactly as it was before
\* rendering, the order of the values of every category list included.
C24_Original == RenderedAfterJobs => checkout_report = BeforeRender

\* what does hold of the report after rendering: the same identifiers and
\* categories in the same order and the same branches in each list, every
\* list now in sorted order
C24_SortedInPlace ==
    RenderedAfterJobs =>
        /\ Unordered(checkout_report) = Unordered(BeforeRender)
        /\ checkout_report = SortLists(BeforeRender)

\* a rendered report one of whose lists was not in sorted order before
C24_Witness ==
    /\ RenderedAfterJobs
    /\ checkout_report # BeforeRender
    /\ Unordered(checkout_report) = Unordered(BeforeRender)

\* C25 as stated: whenever process_repository returns leaving a working copy
\* at the destination, update_repository_branches was invoked in that call,
\* also when clone_and_configure cloned the repository and then exited
\* non-zero.
C25_Original == (Returned /\ Rp.exists) => Synced

\* what does hold: a call returns without the synchronization and with a
\* working copy at the destination only when it found none, ran
\* clone_and_configure, and that command cloned and then exited non-zero
C25_SyncedUnlessConfigFailed ==
    (Returned /\ Rp.exists /\ ~Synced) =>
        /\ ~start.rp.exists
        /\ gitclone_command # None
        /\ log = <<Ev("clone", Id, FALSE)>>
        /\ checkout_report = start.report

\* the clone was made, the identity was not configured, and the call returned
\* without the synchronization
C25_Witness ==
    /\ Returned /\ Rp.exists /\ ~Synced
    /\ ~start.rp.exists /\ gitclone_command # None
    /\ log = <<Ev("clone", Id, FALSE)>>

====
